---- MODULE Spec2Model ----
(***************************************************************************)
(* StackAllocator<T, N, AlignAccess> and StackVector<T, N, AlignAccess>    *)
(* of stack_allocator.hpp, FunctionRunner of function_runner.hpp and       *)
(* ParallelRunner of parallel_runner.hpp as state machines.                *)
(*                                                                         *)
(* size_type is modelled as an unsigned integer of SizeBits bits: every    *)
(* size_type expression of the source is reduced modulo SizeMod.  Pointers *)
(* are byte addresses in the same range; the allocator's m_buffer starts   *)
(* at address BufferAddr, and nullptr is address 0.                        *)
(*                                                                         *)
(* Spec        one StackAllocator under allocate and deallocate            *)
(* SpecVector  one StackVector under push_back, emplace_back and clear     *)
(* SpecHandles an allocator and a second one constructed by default, by    *)
(*             copy or by rebind, with operator== and operator!=           *)
(* SpecMove    a StackVector, the StackVector move-constructed from it,    *)
(*             push_back and reserve on both, and the end of the first     *)
(*             one's lifetime                                              *)
(* SpecFresh   one StackAllocator under allocate alone                     *)
(* SpecAlign   allocate with AlignAccess, from every m_offset in 0..N      *)
(* SpecRunners one FunctionRunner or ParallelRunner under run, rerun and   *)
(*             rerun_failed, its steps returning any value                 *)
(* SpecLive    one StackAllocator under allocate and the deallocate of     *)
(*             its live allocations                                        *)
(* SpecWithin  SpecLive with the counts whose byte size fits size_type     *)
(***************************************************************************)
EXTENDS Integers, Sequences, FiniteSets, TLC

\* ----------------------------------------------------------------- bounds
SizeBits == 6
BufferAddr == 8
MaxCount == 4
MaxLive == 3
MaxOverflows == 1
MaxHandleLive == 2

SizeMod == 2^SizeBits

NULL == 0

\* -------------------------------------------------------- template arguments
\* T as (sizeof(T), alignof(T)), N in bytes, AlignAccess, and whether the
\* translation unit is compiled with NDEBUG (assert compiled out).
ArenaConfigs ==
    { [size |-> 4, align |-> 4, N |-> 16, AlignAccess |-> TRUE,  NDEBUG |-> TRUE],
      [size |-> 4, align |-> 4, N |-> 8,  AlignAccess |-> TRUE,  NDEBUG |-> FALSE],
      [size |-> 4, align |-> 4, N |-> 10, AlignAccess |-> TRUE,  NDEBUG |-> TRUE],
      [size |-> 1, align |-> 1, N |-> 4,  AlignAccess |-> FALSE, NDEBUG |-> TRUE],
      [size |-> 3, align |-> 1, N |-> 7,  AlignAccess |-> FALSE, NDEBUG |-> TRUE] }

VARIABLES
    cfg,        \* the template arguments of the allocator under test
    m_offset,   \* StackAllocator::m_offset
    status,     \* "running", or "aborted" once assert(false) has fired
    live,       \* history: <<[p, n]>> of successful allocations not yet deallocated,
                \* kept while misuse is FALSE
    overflows,  \* history: the number of allocate(n) calls whose size arithmetic wrapped
    misuse,     \* history: some deallocate(p, n) was not the (p, n) of a live allocation
    op,         \* history: the last call, its arguments, its result, m_offset before it
    rt,         \* history: progress of an allocate / deallocate / allocate round trip
    ignored,    \* history, kept where every deallocate is that of a live
                \* allocation: {[p, n]}, the allocations whose deallocate left
                \* the cursor where it was
    unwound,    \* history, kept like ignored: the deallocate calls since the
                \* last allocate: "none", "reverse" (each one that of the
                \* newest live allocation) or "other"
    vcfg,       \* the template arguments of the StackVector under test
    sv,         \* the StackVector: m_alloc, and m_vec with the allocator it holds
    vstatus,    \* "running", "aborted" (assert), "crashed" or "undefined"
    vop,        \* history: the last StackVector call and the vector before it
    vh,         \* history: the calls m_vec has made to its allocator, the value
                \* last pushed, the storage before the last call, and the
                \* element addresses at the last clear()
    handles,    \* the StackAllocator objects of the copy / rebind specification:
                \* a first allocator and, once constructed, a second one
    hlive,      \* history: {[h, p, n]}, the live allocations made through handle h
    hover,      \* history: the number of allocate(n) calls whose arithmetic wrapped
    hop,        \* history: the last comparison of two handles and its results,
                \* until another operation follows
    mcfg,       \* the template arguments of the StackVectors of the move
                \* specification
    src,        \* the StackVector object that is moved from
    dst,        \* the StackVector object move-constructed from src
    mstatus,    \* "running", "aborted", "crashed" or "undefined"
    runner,     \* the runner under test: its class, the return type of its
                \* steps and sizeof...(Funcs)
    m_failed_step,  \* FunctionRunner::m_failed_step
    m_result,   \* FunctionRunner::m_result
    m_results,  \* ParallelRunner::m_results, indexed from 0
    m_executed, \* ParallelRunner::m_executed
    rop,        \* history: the last call on the runner, its argument, what it
                \* returned, the steps it invoked, in order, and their values,
                \* and what observers returned before the call
    rh          \* history: whether run() has been called, what the last run()
                \* returned, whether a run() before it reported a failure, and
                \* how the last execution of each step ended

arenaVars == <<cfg, m_offset, status, live, overflows, misuse, op, rt, ignored,
               unwound>>
vectorVars == <<vcfg, sv, vstatus, vop, vh>>
handleVars == <<handles, hlive, hover, hop>>
moveVars == <<mcfg, src, dst, mstatus>>
runnerVars == <<runner, m_failed_step, m_result, m_results, m_executed, rop, rh>>
vars == <<arenaVars, vectorVars, handleVars, moveVars, runnerVars>>

\* ------------------------------------------------------------- the allocator
\* buffer_ptr + off, as a pointer
PtrAt(off) == (BufferAddr + off) % SizeMod

\* p - buffer_ptr, converted to size_type
OffsetOf(p) == (p - BufferAddr) % SizeMod

\* (m_offset + alignment - 1) & ~(alignment - 1), alignment a power of two
AlignUp(off, alignment) ==
    LET x == (off + alignment - 1) % SizeMod
    IN  x - (x % alignment)

aligned_offset(c, off) ==
    IF c.AlignAccess THEN AlignUp(off, c.align) ELSE off

bytes_needed(c, n) == (n * c.size) % SizeMod

\* faulty variant: the request alone is compared with N, m_offset is forgotten
OutOfBuffer_IgnoresOffset(c, off, n) == bytes_needed(c, n) > c.N

\* the test of line 103
OutOfBuffer(c, off, n) ==
    (aligned_offset(c, off) + bytes_needed(c, n)) % SizeMod > c.N

\* faulty variant: without the n == 0 test of lines 89-91
allocate_ZeroNotSpecial(c, off, n) ==
    IF OutOfBuffer(c, off, n)
    THEN [result |-> NULL, offset |-> off, asserted |-> TRUE]
    ELSE [result   |-> PtrAt(aligned_offset(c, off)),
          offset   |-> (aligned_offset(c, off) + bytes_needed(c, n)) % SizeMod,
          asserted |-> FALSE]

\* faulty variant: a refused request moves m_offset all the same
allocate_AdvancesOnFailure(c, off, n) ==
    IF n = 0
    THEN [result |-> NULL, offset |-> off, asserted |-> FALSE]
    ELSE [result   |-> IF OutOfBuffer(c, off, n)
                       THEN NULL
                       ELSE PtrAt(aligned_offset(c, off)),
          offset   |-> (aligned_offset(c, off) + bytes_needed(c, n)) % SizeMod,
          asserted |-> OutOfBuffer(c, off, n)]

\* allocate(n) called with m_offset = off: the pointer returned, the new m_offset,
\* and whether the assert of line 105 was reached
allocate(c, off, n) ==
    IF n = 0
    THEN [result |-> NULL, offset |-> off, asserted |-> FALSE]
    ELSE IF OutOfBuffer(c, off, n)
         THEN [result |-> NULL, offset |-> off, asserted |-> TRUE]
         ELSE [result   |-> PtrAt(aligned_offset(c, off)),
               offset   |-> (aligned_offset(c, off) + bytes_needed(c, n)) % SizeMod,
               asserted |-> FALSE]

\* faulty variant: the count is added to the pointer without sizeof(T)
IsLastAllocation_CountNotBytes(c, off, p, n) ==
    (p + n) % SizeMod = PtrAt(off)

\* the test of line 138: ptr_as_char + bytes == buffer_ptr + m_offset
IsLastAllocation(c, off, p, n) ==
    (p + bytes_needed(c, n)) % SizeMod = PtrAt(off)

\* faulty variant: deallocate never reclaims
deallocate_NeverReclaims(c, off, p, n) == off

\* faulty variant: deallocate rewinds to p without the test of line 138
deallocate_AlwaysRewinds(c, off, p, n) == OffsetOf(p)

\* deallocate(p, n) called with m_offset = off: the new m_offset
deallocate(c, off, p, n) ==
    IF IsLastAllocation(c, off, p, n) THEN OffsetOf(p) ELSE off

\* ------------------------------------------------------------------ inputs
\* counts: the small ones, and those around the count at which n * sizeof(T)
\* passes the maximum of size_type
Counts(c) ==
    LET w == SizeMod \div c.size
    IN  (0..MaxCount) \cup ({w - 1, w, w + 1} \cap (0..(SizeMod - 1)))

\* T* values that point into m_buffer (one past the end included)
BufferPointers(c) ==
    { PtrAt(o) : o \in { x \in 0..c.N : x % c.align = 0 } }

\* ------------------------------------------------------------------ history
\* aligned_offset + n * sizeof(T) does not fit size_type
Overflows(c, off, n) == aligned_offset(c, off) + n * c.size >= SizeMod

RemoveAt(s, i) == SubSeq(s, 1, i - 1) \o SubSeq(s, i + 1, Len(s))

Matches(p, n) == { i \in 1..Len(live) : live[i].p = p /\ live[i].n = n }

Max(S) == CHOOSE x \in S : \A y \in S : y <= x

NoTrip == [stage |-> 0, p |-> NULL, n |-> 0, start |-> 0, q |-> NULL]

\* stage 1: allocate(n) returned p from offset start; stage 2: deallocate(p, n)
\* followed at once; stage 3: allocate(n) followed at once and returned q
TripAfterAllocate(n, pre, r) ==
    IF rt.stage = 2 /\ n = rt.n
    THEN [rt EXCEPT !.stage = 3, !.q = r.result]
    ELSE IF r.result # NULL
         THEN [stage |-> 1, p |-> r.result, n |-> n, start |-> pre, q |-> NULL]
         ELSE NoTrip

TripAfterDeallocate(p, n) ==
    IF rt.stage = 1 /\ p = rt.p /\ n = rt.n
    THEN [rt EXCEPT !.stage = 2]
    ELSE NoTrip

\* ----------------------------------------------------------------- actions
NoOperation ==
    [kind |-> "none", h |-> 0, other |-> 0, eq |-> FALSE, ne |-> FALSE]

\* no second allocator object is constructed outside the copy / rebind
\* specification
NoHandles ==
    /\ handles = << >>
    /\ hlive = {}
    /\ hover = 0
    /\ hop = NoOperation

\* no StackVector object at this place
NoObject ==
    [life |-> "none", obj |-> NULL, m_alloc |-> 0, alloc |-> 0, start |-> NULL,
     cap |-> 0, elems |-> << >>, addr |-> << >>]

\* no StackVector is moved outside the move specification
NoMove ==
    /\ mcfg = [size |-> 1, align |-> 1, N |-> 0, AlignAccess |-> FALSE, NDEBUG |-> TRUE]
    /\ src = NoObject
    /\ dst = NoObject
    /\ mstatus = "running"

\* no runner outside the runners' specification
NoRunner ==
    /\ runner = [class |-> "none", return_type |-> "int", size |-> 0]
    /\ m_failed_step = -1
    /\ m_result = 0
    /\ m_results = << >>
    /\ m_executed = FALSE
    /\ rop = [kind |-> "none", index |-> 0, returned |-> 0, invoked |-> << >>,
              values |-> << >>,
              pre |-> [failed_step |-> -1, m_results |-> << >>,
                       success_count |-> 0]]
    /\ rh = [ran |-> FALSE, run_returned |-> -1, failed_earlier |-> FALSE,
             last |-> << >>]

\* no StackVector is constructed in the allocator's own specification
NoVector ==
    /\ vcfg = [size |-> 1, align |-> 1, N |-> 0, AlignAccess |-> FALSE, NDEBUG |-> TRUE]
    /\ sv = [m_alloc |-> 0, alloc |-> 0, start |-> NULL, cap |-> 0,
             elems |-> << >>, addr |-> << >>]
    /\ vstatus = "running"
    /\ vop = [kind |-> "none", size |-> 0, elems |-> << >>]
    /\ vh = [calls |-> << >>, x |-> 0, cleared |-> << >>,
             pre |-> [alloc |-> 0, start |-> NULL, cap |-> 0, calls |-> 0]]

Init ==
    /\ NoVector
    /\ NoHandles
    /\ NoMove
    /\ NoRunner
    /\ cfg \in ArenaConfigs
    /\ m_offset = 0
    /\ status = "running"
    /\ live = << >>
    /\ overflows = 0
    /\ misuse = FALSE
    /\ op = [kind |-> "construct", n |-> 0, p |-> NULL, result |-> NULL, pre |-> 0]
    /\ rt = NoTrip
    /\ ignored = {}
    /\ unwound = "none"

Allocate ==
    \E n \in Counts(cfg) :
        LET r == allocate(cfg, m_offset, n)
        IN  /\ status = "running"
            /\ (r.result # NULL /\ ~misuse) => Len(live) < MaxLive
            /\ Overflows(cfg, m_offset, n) => overflows < MaxOverflows
            /\ overflows' = IF Overflows(cfg, m_offset, n) THEN overflows + 1 ELSE overflows
            /\ m_offset' = r.offset
            /\ status' = IF r.asserted /\ ~cfg.NDEBUG THEN "aborted" ELSE "running"
            /\ live' = IF r.result # NULL /\ ~misuse
                       THEN Append(live, [p |-> r.result, n |-> n])
                       ELSE live
            /\ op' = [kind |-> "allocate", n |-> n, p |-> NULL,
                      result |-> r.result, pre |-> m_offset]
            /\ rt' = TripAfterAllocate(n, m_offset, r)
            /\ unwound' = "none"
            /\ UNCHANGED <<cfg, misuse, ignored, vectorVars, handleVars, moveVars,
                           runnerVars>>

Deallocate ==
    \E p \in BufferPointers(cfg), n \in Counts(cfg) :
        /\ status = "running"
        /\ m_offset' = deallocate(cfg, m_offset, p, n)
        /\ misuse' = (misuse \/ Matches(p, n) = {})
        /\ live' = IF misuse' THEN << >> ELSE RemoveAt(live, Max(Matches(p, n)))
        /\ op' = [kind |-> "deallocate", n |-> n, p |-> p,
                  result |-> NULL, pre |-> m_offset]
        /\ rt' = TripAfterDeallocate(p, n)
        /\ UNCHANGED <<cfg, status, overflows, ignored, unwound, vectorVars,
                       handleVars, moveVars, runnerVars>>

Next == Allocate \/ Deallocate

Spec == Init /\ [][Next]_vars

\* a newly constructed allocator on which only allocate is called
NextFresh == Allocate

SpecFresh == Init /\ [][NextFresh]_vars

\* deallocate(p, n) with the pointer and count of a live allocation, any of
\* them
DeallocateLive ==
    \E i \in 1..Len(live) :
        LET p == live[i].p
            n == live[i].n
        IN  /\ status = "running"
            /\ ~misuse
            /\ m_offset' = deallocate(cfg, m_offset, p, n)
            /\ live' = RemoveAt(live, i)
            /\ ignored' = IF m_offset' = m_offset
                          THEN ignored \cup {[p |-> p, n |-> n]}
                          ELSE ignored
            /\ unwound' = IF i = Len(live) /\ unwound # "other"
                          THEN "reverse"
                          ELSE "other"
            /\ op' = [kind |-> "deallocate", n |-> n, p |-> p,
                      result |-> NULL, pre |-> m_offset]
            /\ rt' = TripAfterDeallocate(p, n)
            /\ UNCHANGED <<cfg, status, overflows, misuse, vectorVars,
                           handleVars, moveVars, runnerVars>>

\* an allocator used as meant: every deallocate is that of a live allocation
NextLive == Allocate \/ DeallocateLive

SpecLive == Init /\ [][NextLive]_vars

\* allocate(n) for the counts whose n * sizeof(T) fits size_type
AllocateWithinSizeType == Allocate /\ op'.n * cfg.size < SizeMod

\* an allocator used as meant, with requests whose byte size fits size_type
NextWithin == AllocateWithinSizeType \/ DeallocateLive

SpecWithin == Init /\ [][NextWithin]_vars

\* allocators with AlignAccess for alignof(T) = 1, 2, 4 and 8
AlignConfigs ==
    { [size |-> 1, align |-> 1, N |-> 3,  AlignAccess |-> TRUE, NDEBUG |-> TRUE],
      [size |-> 2, align |-> 2, N |-> 7,  AlignAccess |-> TRUE, NDEBUG |-> TRUE],
      [size |-> 4, align |-> 4, N |-> 10, AlignAccess |-> TRUE, NDEBUG |-> FALSE],
      [size |-> 8, align |-> 8, N |-> 17, AlignAccess |-> TRUE, NDEBUG |-> TRUE] }

\* allocate taken as a function of the m_offset it is called with: m_offset
\* is drawn from 0..N, offsets that are no multiple of alignof(T) included
InitAlign ==
    /\ NoVector
    /\ NoHandles
    /\ NoMove
    /\ NoRunner
    /\ cfg \in AlignConfigs
    /\ m_offset \in 0..cfg.N
    /\ status = "running"
    /\ live = << >>
    /\ overflows = 0
    /\ misuse = FALSE
    /\ op = [kind |-> "construct", n |-> 0, p |-> NULL, result |-> NULL, pre |-> 0]
    /\ rt = NoTrip
    /\ ignored = {}
    /\ unwound = "none"

NextAlign == Allocate

SpecAlign == InitAlign /\ [][NextAlign]_vars

\* ------------------------------------------------------------ StackVector
\* T as (sizeof(T), alignof(T)), N in elements, AlignAccess, NDEBUG
VectorConfigs ==
    { [size |-> 4, align |-> 4, N |-> 5, AlignAccess |-> FALSE, NDEBUG |-> TRUE],
      [size |-> 4, align |-> 4, N |-> 3, AlignAccess |-> TRUE,  NDEBUG |-> FALSE],
      [size |-> 1, align |-> 1, N |-> 4, AlignAccess |-> FALSE, NDEBUG |-> FALSE],
      [size |-> 12, align |-> 4, N |-> 1, AlignAccess |-> TRUE, NDEBUG |-> TRUE] }

\* the element values pushed
Values == {1, 2}

\* allocator_type = StackAllocator<T, N * sizeof(T), AlignAccess>
allocator_type(vc) ==
    [size |-> vc.size, align |-> vc.align, N |-> vc.N * vc.size,
     AlignAccess |-> vc.AlignAccess, NDEBUG |-> vc.NDEBUG]

\* &m_vec[i], for the vector's storage at start
ElementAddr(vc, start, i) == (start + i * vc.size) % SizeMod

\* std::vector::reserve(n) on vector v: nothing unless n > capacity(); else
\* storage for n elements is taken from the vector's allocator, the elements
\* move to it and the old storage is given back
vector_reserve(vc, v, n) ==
    IF n <= v.cap
    THEN v
    ELSE LET a == allocate(allocator_type(vc), v.alloc, n)
             off == IF v.start # NULL
                    THEN deallocate(allocator_type(vc), a.offset, v.start, v.cap)
                    ELSE a.offset
         IN  [v EXCEPT !.alloc = off, !.start = a.result, !.cap = n]

\* the calls vector_reserve(vc, v, n) makes to the vector's allocator
vector_reserve_calls(vc, v, n) ==
    IF n <= v.cap
    THEN << >>
    ELSE <<[kind |-> "allocate", n |-> n]>>
         \o (IF v.start # NULL
             THEN <<[kind |-> "deallocate", n |-> v.cap]>>
             ELSE << >>)

\* faulty variant: the constructor does not reserve
StackVectorCtor_NoReserve(vc) ==
    [m_alloc |-> 0, alloc |-> 0, start |-> NULL, cap |-> 0,
     elems |-> << >>, addr |-> << >>]

\* StackVector(): m_alloc(), m_vec(m_alloc), m_vec.reserve(N).  m_vec holds a
\* copy of m_alloc, and the copy constructor starts the copy at offset 0 over
\* its own buffer.
StackVectorCtor(vc) ==
    vector_reserve(vc,
                   [m_alloc |-> 0, alloc |-> 0, start |-> NULL, cap |-> 0,
                    elems |-> << >>, addr |-> << >>],
                   vc.N)

\* the allocator calls of StackVector()
StackVectorCtor_calls(vc) ==
    vector_reserve_calls(vc,
                         [m_alloc |-> 0, alloc |-> 0, start |-> NULL, cap |-> 0,
                          elems |-> << >>, addr |-> << >>],
                         vc.N)

\* the capacity std::vector asks for when it has to grow by one element
GrownCapacity(v) ==
    Len(v.elems) + (IF Len(v.elems) > 1 THEN Len(v.elems) ELSE 1)

\* the vector with x constructed at the end of its storage
Constructed(vc, v, x) ==
    [v EXCEPT !.elems = Append(v.elems, x),
              !.addr = Append(v.addr, ElementAddr(vc, v.start, Len(v.elems)))]

\* faulty variant: the vector grows while one element of room is left
push_back_GrowsEarly(vc, v, x, ub) ==
    IF Len(v.elems) + 1 < v.cap
    THEN [v |-> Constructed(vc, v, x), status |-> "running", calls |-> << >>]
    ELSE [v |-> v, status |-> "crashed",
          calls |-> <<[kind |-> "allocate", n |-> GrownCapacity(v)]>>]

\* m_vec.push_back(x) / m_vec.emplace_back(x): the vector afterwards, how the
\* call ended and the calls made to the vector's allocator.  With room the
\* element is constructed in place; where the room is a capacity over null
\* storage, left by a reserve whose allocate failed, that is a store through
\* the null pointer: undefined behaviour.  Without
\* room the vector asks its allocator for GrownCapacity elements; a null
\* result is not checked by std::vector, which constructs the element and
\* moves the old ones through it: undefined behaviour, modelled as a crash
\* ("crashed") or as the stores going through ("undefined").
push_back(vc, v, x, ub) ==
    IF Len(v.elems) < v.cap
    THEN IF v.start # NULL
         THEN [v |-> Constructed(vc, v, x), status |-> "running", calls |-> << >>]
         ELSE IF ub = "crash"
              THEN [v |-> v, status |-> "crashed", calls |-> << >>]
              ELSE [v |-> Constructed(vc, v, x), status |-> "undefined",
                    calls |-> << >>]
    ELSE LET a == allocate(allocator_type(vc), v.alloc, GrownCapacity(v))
             off == IF v.start # NULL
                    THEN deallocate(allocator_type(vc), a.offset, v.start, v.cap)
                    ELSE a.offset
             grown == [v EXCEPT !.alloc = off, !.start = a.result,
                                !.cap = GrownCapacity(v),
                                !.elems = Append(v.elems, x),
                                !.addr = Append(v.addr,
                                    ElementAddr(vc, a.result, Len(v.elems)))]
             asked == <<[kind |-> "allocate", n |-> GrownCapacity(v)]>>
             gave == IF v.start # NULL
                     THEN <<[kind |-> "deallocate", n |-> v.cap]>>
                     ELSE << >>
         IN  IF a.asserted /\ ~vc.NDEBUG
             THEN [v |-> v, status |-> "aborted", calls |-> asked]
             ELSE IF a.result = NULL
                  THEN IF ub = "crash"
                       THEN [v |-> v, status |-> "crashed", calls |-> asked]
                       ELSE [v |-> grown, status |-> "undefined",
                             calls |-> asked \o gave]
                  ELSE [v |-> grown, status |-> "running", calls |-> asked \o gave]

\* faulty variant: clear() gives the storage back to the allocator
clear_ReleasesStorage(v) ==
    [v EXCEPT !.elems = << >>, !.addr = << >>, !.start = NULL, !.cap = 0,
              !.alloc = 0]

\* the storage of the vector and the number of allocator calls made so far
Storage(v, calls) ==
    [alloc |-> v.alloc, start |-> v.start, cap |-> v.cap, calls |-> Len(calls)]

\* m_vec.clear(): the elements are destroyed, the storage is kept
clear(v) == [v EXCEPT !.elems = << >>, !.addr = << >>]

\* StackVector::reserve(n), that is m_vec.reserve(n), for n <= max_size():
\* the vector afterwards, how the call ended and the calls made to the
\* vector's allocator.  Nothing unless n > capacity().  Else the vector asks
\* its allocator for n elements and does not check the result: with elements
\* to move, a null result is stored through, undefined behaviour; with none,
\* the vector is left with capacity n over null storage.
reserve(vc, v, n, ub) ==
    LET r == vector_reserve(vc, v, n)
        moved == [r EXCEPT !.addr = [i \in DOMAIN v.addr |->
                                        ElementAddr(vc, r.start, i - 1)]]
        calls == vector_reserve_calls(vc, v, n)
    IN  IF n <= v.cap
        THEN [v |-> v, status |-> "running", calls |-> << >>]
        ELSE IF allocate(allocator_type(vc), v.alloc, n).asserted /\ ~vc.NDEBUG
             THEN [v |-> v, status |-> "aborted", calls |-> SubSeq(calls, 1, 1)]
             ELSE IF r.start = NULL /\ v.elems # << >>
                  THEN IF ub = "crash"
                       THEN [v |-> v, status |-> "crashed",
                             calls |-> SubSeq(calls, 1, 1)]
                       ELSE [v |-> moved, status |-> "undefined", calls |-> calls]
                  ELSE [v |-> moved, status |-> "running", calls |-> calls]

NoArena ==
    /\ cfg = [size |-> 1, align |-> 1, N |-> 0, AlignAccess |-> FALSE, NDEBUG |-> TRUE]
    /\ m_offset = 0
    /\ status = "running"
    /\ live = << >>
    /\ overflows = 0
    /\ misuse = FALSE
    /\ op = [kind |-> "none", n |-> 0, p |-> NULL, result |-> NULL, pre |-> 0]
    /\ rt = NoTrip
    /\ ignored = {}
    /\ unwound = "none"

InitVector ==
    /\ NoArena
    /\ NoHandles
    /\ NoMove
    /\ NoRunner
    /\ vcfg \in VectorConfigs
    /\ sv = StackVectorCtor(vcfg)
    /\ vstatus = "running"
    /\ vop = [kind |-> "construct", size |-> 0, elems |-> << >>]
    /\ vh = [calls |-> StackVectorCtor_calls(vcfg), x |-> 0, cleared |-> << >>,
             pre |-> [alloc |-> 0, start |-> NULL, cap |-> 0, calls |-> 0]]

PushBack ==
    \E x \in Values, ub \in {"crash", "continue"} :
        LET r == push_back(vcfg, sv, x, ub)
        IN  /\ vstatus = "running"
            /\ sv' = r.v
            /\ vstatus' = r.status
            /\ vop' = [kind |-> "push_back", size |-> Len(sv.elems), elems |-> sv.elems]
            /\ vh' = [vh EXCEPT !.calls = vh.calls \o r.calls, !.x = x,
                                !.pre = Storage(sv, vh.calls)]
            /\ UNCHANGED <<vcfg, arenaVars, handleVars, moveVars, runnerVars>>

EmplaceBack ==
    \E x \in Values, ub \in {"crash", "continue"} :
        LET r == push_back(vcfg, sv, x, ub)
        IN  /\ vstatus = "running"
            /\ sv' = r.v
            /\ vstatus' = r.status
            /\ vop' = [kind |-> "emplace_back", size |-> Len(sv.elems), elems |-> sv.elems]
            /\ vh' = [vh EXCEPT !.calls = vh.calls \o r.calls, !.x = x,
                                !.pre = Storage(sv, vh.calls)]
            /\ UNCHANGED <<vcfg, arenaVars, handleVars, moveVars, runnerVars>>

Clear ==
    /\ vstatus = "running"
    /\ sv' = clear(sv)
    /\ vop' = [kind |-> "clear", size |-> Len(sv.elems), elems |-> sv.elems]
    /\ vh' = [vh EXCEPT !.x = 0, !.cleared = sv.addr,
                        !.pre = Storage(sv, vh.calls)]
    /\ UNCHANGED <<vcfg, vstatus, arenaVars, handleVars, moveVars, runnerVars>>

NextVector == PushBack \/ EmplaceBack \/ Clear

SpecVector == InitVector /\ [][NextVector]_vars

\* ------------------------------------------------ copies and rebound copies
\* T of a handle: its name, sizeof(T), alignof(T)
ElementTypes ==
    { [name |-> "int",   size |-> 4, align |-> 4],
      [name |-> "float", size |-> 4, align |-> 4],
      [name |-> "short", size |-> 2, align |-> 2] }

\* N and AlignAccess of the first allocator; copies and rebound copies keep
\* them.  The translation unit is compiled with NDEBUG.
HandleConfigs ==
    { [N |-> 4, AlignAccess |-> TRUE], [N |-> 4, AlignAccess |-> FALSE] }

\* sizeof(StackAllocator<T, N, AlignAccess>) for the N of HandleConfigs:
\* m_buffer followed by m_offset
HandleStride == 16

\* the addresses at which an allocator object can be placed, that is, the
\* addresses of its m_buffer, its first member
HandleSlots == { BufferAddr, BufferAddr + HandleStride }

\* two objects alive at the same time do not share an address
FreeSlots == HandleSlots \ { handles[i].buf : i \in 1..Len(handles) }

\* the allocator operators above are written for an allocator whose m_buffer
\* is at BufferAddr; for one whose m_buffer is at buf, pointers are shifted
ToFrame(buf, p) == IF p = NULL THEN NULL ELSE (p - buf + BufferAddr) % SizeMod

FromFrame(buf, p) == IF p = NULL THEN NULL ELSE (p - BufferAddr + buf) % SizeMod

\* StackAllocator(): an object at buf with m_offset(0); origin and how record,
\* as history, the handle it was constructed from (none) and the constructor
DefaultCtor(hc, T, buf) ==
    [c |-> [size |-> T.size, align |-> T.align, N |-> hc.N,
            AlignAccess |-> hc.AlignAccess, NDEBUG |-> TRUE],
     T |-> T.name, buf |-> buf, m_offset |-> 0, origin |-> 0, how |-> "default"]

\* StackAllocator(const StackAllocator&): a new object, so a new m_buffer, with
\* m_offset(0); nothing of the argument is read
CopyCtor(i, buf) ==
    [c |-> handles[i].c, T |-> handles[i].T, buf |-> buf, m_offset |-> 0,
     origin |-> i, how |-> "copy"]

\* StackAllocator(const StackAllocator<U, N, AlignAccess>&), constructing a
\* StackAllocator<T, N, AlignAccess> from handle i: a new object with m_offset(0)
RebindCtor(i, T, buf) ==
    [c |-> [handles[i].c EXCEPT !.size = T.size, !.align = T.align],
     T |-> T.name, buf |-> buf, m_offset |-> 0, origin |-> i, how |-> "rebind"]

\* &m_buffer == &other.m_buffer is well-formed only between pointers of one type:
\* char[N] of one N, or aligned_storage<N, alignof(T)>::type of one N and one
\* alignment
Comparable(a, b) ==
    /\ a.c.N = b.c.N
    /\ a.c.AlignAccess = b.c.AlignAccess
    /\ a.c.AlignAccess => a.c.align = b.c.align

\* faulty variant: equality of what the allocators are and hold, not of where
\* their buffers are
Equal_ByValue(a, b) == a.c = b.c /\ a.T = b.T /\ a.m_offset = b.m_offset

\* operator==: &m_buffer == &other.m_buffer
Equal(a, b) == a.buf = b.buf

\* operator!=: !(*this == other)
NotEqual(a, b) == ~Equal(a, b)

InitHandles ==
    /\ NoArena
    /\ NoVector
    /\ NoMove
    /\ NoRunner
    /\ \E hc \in HandleConfigs, T \in ElementTypes, buf \in HandleSlots :
           handles = << DefaultCtor(hc, T, buf) >>
    /\ hlive = {}
    /\ hover = 0
    /\ hop = NoOperation

\* a second allocator of the type of the first
DefaultConstruct ==
    \E T \in ElementTypes, buf \in FreeSlots :
        /\ Len(handles) = 1
        /\ T.name = handles[1].T
        /\ handles' = Append(handles,
               DefaultCtor([N |-> handles[1].c.N,
                            AlignAccess |-> handles[1].c.AlignAccess], T, buf))
        /\ hop' = NoOperation
        /\ UNCHANGED <<hlive, hover, arenaVars, vectorVars, moveVars, runnerVars>>

CopyConstruct ==
    \E i \in 1..Len(handles), buf \in FreeSlots :
        /\ Len(handles) = 1
        /\ handles' = Append(handles, CopyCtor(i, buf))
        /\ hop' = NoOperation
        /\ UNCHANGED <<hlive, hover, arenaVars, vectorVars, moveVars, runnerVars>>

RebindConstruct ==
    \E i \in 1..Len(handles), T \in ElementTypes, buf \in FreeSlots :
        /\ Len(handles) = 1
        /\ T.name # handles[i].T
        /\ handles' = Append(handles, RebindCtor(i, T, buf))
        /\ hop' = NoOperation
        /\ UNCHANGED <<hlive, hover, arenaVars, vectorVars, moveVars, runnerVars>>

HandleAllocate ==
    \E i \in 1..Len(handles) :
        \E n \in Counts(handles[i].c) :
            LET h == handles[i]
                r == allocate(h.c, h.m_offset, n)
                q == FromFrame(h.buf, r.result)
            IN  /\ q # NULL => Cardinality(hlive) < MaxHandleLive
                /\ Overflows(h.c, h.m_offset, n) => hover < MaxOverflows
                /\ hover' = IF Overflows(h.c, h.m_offset, n) THEN hover + 1 ELSE hover
                /\ handles' = [handles EXCEPT ![i].m_offset = r.offset]
                /\ hlive' = IF q # NULL
                            THEN hlive \cup {[h |-> i, p |-> q, n |-> n]}
                            ELSE hlive
                /\ hop' = NoOperation
                /\ UNCHANGED <<arenaVars, vectorVars, moveVars, runnerVars>>

\* deallocate of a live allocation, through the handle that made it
HandleDeallocate ==
    \E x \in hlive :
        LET h == handles[x.h]
        IN  /\ handles' = [handles EXCEPT ![x.h].m_offset =
                               deallocate(h.c, h.m_offset, ToFrame(h.buf, x.p), x.n)]
            /\ hlive' = hlive \ {x}
            /\ hop' = NoOperation
            /\ UNCHANGED <<hover, arenaVars, vectorVars, moveVars, runnerVars>>

\* a == b and a != b evaluated for two handles
Compare ==
    \E i, j \in 1..Len(handles) :
        /\ i <= j
        /\ Comparable(handles[i], handles[j])
        /\ hop' = [kind |-> "compare", h |-> i, other |-> j,
                   eq |-> Equal(handles[i], handles[j]),
                   ne |-> NotEqual(handles[i], handles[j])]
        /\ UNCHANGED <<handles, hlive, hover, arenaVars, vectorVars, moveVars, runnerVars>>

NextHandles ==
    \/ DefaultConstruct
    \/ CopyConstruct
    \/ RebindConstruct
    \/ HandleAllocate
    \/ HandleDeallocate
    \/ Compare

SpecHandles == InitHandles /\ [][NextHandles]_vars

\* --------------------------------------------------- moving a StackVector
MoveConfigs ==
    { [size |-> 1, align |-> 1, N |-> 3, AlignAccess |-> FALSE, NDEBUG |-> TRUE],
      [size |-> 2, align |-> 2, N |-> 2, AlignAccess |-> TRUE,  NDEBUG |-> FALSE],
      [size |-> 4, align |-> 4, N |-> 1, AlignAccess |-> FALSE, NDEBUG |-> TRUE] }

\* sizeof(size_type) and sizeof(T*), in bytes, for size_type of SizeBits bits
WordBytes == (SizeBits + 7) \div 8

RoundUp(x, a) == ((x + a - 1) \div a) * a

\* alignof(allocator_type): that of m_buffer, which is alignof(T) with
\* AlignAccess and that of char without, and of m_offset
alignof_allocator_type(vc) ==
    IF vc.AlignAccess /\ vc.align > WordBytes THEN vc.align ELSE WordBytes

\* sizeof(allocator_type): m_buffer of N * sizeof(T) bytes, then m_offset
sizeof_allocator_type(vc) ==
    RoundUp(RoundUp(vc.N * vc.size, WordBytes) + WordBytes,
            alignof_allocator_type(vc))

\* sizeof(vector_type): the allocator it holds, then three pointers
sizeof_vector_type(vc) ==
    RoundUp(sizeof_allocator_type(vc) + WordBytes + WordBytes + WordBytes,
            alignof_allocator_type(vc))

\* sizeof(StackVector): m_alloc, then m_vec
sizeof_StackVector(vc) == sizeof_allocator_type(vc) + sizeof_vector_type(vc)

\* &m_alloc.m_buffer and the m_buffer of the allocator held by m_vec, for the
\* StackVector at address obj
Buffer_m_alloc(vc, obj) == obj

Buffer_m_vec(vc, obj) == obj + sizeof_allocator_type(vc)

\* the vector v with its pointers taken into, and out of, the frame of the
\* allocator operators, for the allocator whose m_buffer is at buf
InFrame(buf, v) ==
    [v EXCEPT !.start = ToFrame(buf, @),
              !.addr = [i \in DOMAIN @ |-> ToFrame(buf, @[i])]]

OutOfFrame(buf, v) ==
    [v EXCEPT !.start = FromFrame(buf, @),
              !.addr = [i \in DOMAIN @ |-> FromFrame(buf, @[i])]]

\* StackVector() for the object at address obj
StackVectorAt(vc, obj) ==
    LET v == OutOfFrame(Buffer_m_vec(vc, obj), StackVectorCtor(vc))
    IN  [life |-> "alive", obj |-> obj, m_alloc |-> v.m_alloc, alloc |-> v.alloc,
         start |-> v.start, cap |-> v.cap, elems |-> v.elems, addr |-> v.addr]

\* StackVector(StackVector&&) = default, constructing the object at obj from a.
\* m_alloc is constructed from a.m_alloc by the copy constructor, as
\* StackAllocator declares no move constructor: m_offset(0).  m_vec is
\* move-constructed: its allocator is constructed from that of a.m_vec, again by
\* the copy constructor, and it takes over the three pointers of a.m_vec, which
\* become null.
MoveCtor(a, obj) ==
    [to   |-> [life |-> "alive", obj |-> obj, m_alloc |-> 0, alloc |-> 0,
               start |-> a.start, cap |-> a.cap, elems |-> a.elems,
               addr |-> a.addr],
     from |-> [a EXCEPT !.start = NULL, !.cap = 0, !.elems = << >>,
                        !.addr = << >>]]

\* ~StackVector(): m_vec destroys its elements and gives its storage, if any,
\* back to the allocator it holds; then the object's memory is released
Destroyed(vc, a) ==
    [a EXCEPT !.life = "destroyed",
              !.alloc = IF a.start # NULL
                        THEN deallocate(allocator_type(vc), a.alloc,
                                        ToFrame(Buffer_m_vec(vc, a.obj), a.start),
                                        a.cap)
                        ELSE a.alloc,
              !.start = NULL, !.cap = 0, !.elems = << >>, !.addr = << >>]

\* the bytes [p, p + len) lie in the object that was at a.obj
InsideObject(vc, a, p, len) ==
    a.obj <= p /\ p + len <= a.obj + sizeof_StackVector(vc)

\* the storage of v is in an object that has been destroyed
Dangling(vc, v) ==
    /\ v.start # NULL
    /\ src.life = "destroyed"
    /\ InsideObject(vc, src, v.start, v.cap * vc.size)

\* push_back(x) on the StackVector object v
push_back_at(vc, v, x, ub) ==
    LET buf == Buffer_m_vec(vc, v.obj)
        r == push_back(vc, InFrame(buf, v), x, ub)
    IN  [v |-> OutOfFrame(buf, r.v), status |-> r.status]

\* reserve(n) on the StackVector object v
reserve_at(vc, v, n, ub) ==
    LET buf == Buffer_m_vec(vc, v.obj)
        r == reserve(vc, InFrame(buf, v), n, ub)
    IN  [v |-> OutOfFrame(buf, r.v), status |-> r.status, calls |-> r.calls]

InitMove ==
    /\ NoArena
    /\ NoVector
    /\ NoHandles
    /\ NoRunner
    /\ mcfg \in MoveConfigs
    /\ \E obj \in {BufferAddr, BufferAddr + sizeof_StackVector(mcfg)} :
           src = StackVectorAt(mcfg, obj)
    /\ dst = NoObject
    /\ mstatus = "running"

\* src.push_back(x), before and after src is moved from
PushSource ==
    \E x \in Values, ub \in {"crash", "continue"} :
        LET r == push_back_at(mcfg, src, x, ub)
        IN  /\ mstatus = "running"
            /\ src.life = "alive"
            /\ src' = r.v
            /\ mstatus' = r.status
            /\ UNCHANGED <<mcfg, dst, arenaVars, vectorVars, handleVars, runnerVars>>

\* StackVector dst(std::move(src)), at the place beside src
MoveConstruct ==
    /\ mstatus = "running"
    /\ src.life = "alive" /\ dst.life = "none"
    /\ LET obj == IF src.obj = BufferAddr
                  THEN BufferAddr + sizeof_StackVector(mcfg)
                  ELSE BufferAddr
           m == MoveCtor(src, obj)
       IN  dst' = m.to /\ src' = m.from
    /\ UNCHANGED <<mcfg, mstatus, arenaVars, vectorVars, handleVars, runnerVars>>

\* dst.push_back(x).  Once src is destroyed, storage inside it is dead and a
\* store to it is undefined behaviour: a crash, or the store goes through.
PushDestination ==
    \E x \in Values, ub \in {"crash", "continue"} :
        LET r == push_back_at(mcfg, dst, x, ub)
        IN  /\ mstatus = "running"
            /\ dst.life = "alive"
            /\ IF Dangling(mcfg, dst)
               THEN IF ub = "crash"
                    THEN dst' = dst /\ mstatus' = "crashed"
                    ELSE dst' = r.v /\ mstatus' = "undefined"
               ELSE dst' = r.v /\ mstatus' = r.status
            /\ UNCHANGED <<mcfg, src, arenaVars, vectorVars, handleVars, runnerVars>>

\* the lifetime of src ends
DestroySource ==
    /\ mstatus = "running"
    /\ src.life = "alive" /\ dst.life = "alive"
    /\ src' = Destroyed(mcfg, src)
    /\ UNCHANGED <<mcfg, dst, mstatus, arenaVars, vectorVars, handleVars, runnerVars>>

\* src.reserve(n), n <= N, before and after src is moved from
ReserveSourceWith(n, ub) ==
    LET r == reserve_at(mcfg, src, n, ub)
    IN  /\ mstatus = "running"
        /\ src.life = "alive"
        /\ src' = r.v
        /\ mstatus' = r.status
        /\ UNCHANGED <<mcfg, dst, arenaVars, vectorVars, handleVars, runnerVars>>

ReserveSource ==
    \E n \in 0..mcfg.N, ub \in {"crash", "continue"} : ReserveSourceWith(n, ub)

\* dst.reserve(n), n <= N.  A reserve that has to move elements out of storage
\* inside the destroyed src reads dead memory: undefined behaviour.
ReserveDestinationWith(n, ub) ==
    LET r == reserve_at(mcfg, dst, n, ub)
    IN  /\ mstatus = "running"
        /\ dst.life = "alive"
        /\ IF Dangling(mcfg, dst) /\ n > dst.cap
           THEN IF ub = "crash"
                THEN dst' = dst /\ mstatus' = "crashed"
                ELSE dst' = r.v /\ mstatus' = "undefined"
           ELSE dst' = r.v /\ mstatus' = r.status
        /\ UNCHANGED <<mcfg, src, arenaVars, vectorVars, handleVars, runnerVars>>

ReserveDestination ==
    \E n \in 0..mcfg.N, ub \in {"crash", "continue"} :
        ReserveDestinationWith(n, ub)

NextMove ==
    \/ PushSource
    \/ MoveConstruct
    \/ PushDestination
    \/ DestroySource
    \/ ReserveSource
    \/ ReserveDestination

SpecMove == InitMove /\ [][NextMove]_vars

\* ---------------------------------------------------------------- runners
\* FunctionRunner<Funcs...> and ParallelRunner<Funcs...>.  A step is a callable
\* the runner knows nothing about: each invocation returns some value of the
\* common return type.
MaxSteps == 3

\* return types: bool, and int as the type that is not bool
ReturnTypes == {"bool", "int"}

ValuesOf(T) == IF T = "bool" THEN BOOLEAN ELSE {0, 1, -1}

\* return_type{}
ValueInit(T) == IF T = "bool" THEN FALSE ELSE 0

\* faulty variant: a non-bool value counts as a failure when it is zero
is_failure_ZeroFails(T, value) ==
    IF T = "bool" THEN ~value ELSE value = ValueInit(T)

\* is_failure(value): !value for bool, value != T{} for any other type
is_failure(T, value) ==
    IF T = "bool" THEN ~value ELSE value # ValueInit(T)

RunnerConfigs ==
    [class : {"FunctionRunner", "ParallelRunner"}, return_type : ReturnTypes,
     size : 1..MaxSteps]

\* the indices Is of std::index_sequence_for<Funcs...>
Steps(r) == 0..(r.size - 1)

\* the index arguments tried: those of the steps, size() and size() + 1
Indices(r) == 0..(r.size + 1)

\* the values the steps would return on their next invocation
Outcomes(r) == [Steps(r) -> ValuesOf(r.return_type)]

\* FunctionRunner::run_impl from step Is on.  The fold over && stops at the
\* first operand that is false: a step whose value is a failure, after
\* m_failed_step = Is.
RECURSIVE FunctionRunner_run_fold(_, _, _, _)
FunctionRunner_run_fold(r, outs, Is, st) ==
    IF Is = r.size
    THEN st
    ELSE LET called == [st EXCEPT !.m_result = outs[Is],
                                  !.invoked = Append(@, Is)]
         IN  IF ~is_failure(r.return_type, called.m_result)
             THEN FunctionRunner_run_fold(r, outs, Is + 1, called)
             ELSE [called EXCEPT !.m_failed_step = Is]

\* faulty variant: without m_failed_step = -1 at the start
FunctionRunner_run_impl_NoReset(r, failed, result, outs) ==
    LET st == FunctionRunner_run_fold(r, outs, 0,
                  [m_failed_step |-> failed, m_result |-> result,
                   invoked |-> << >>])
    IN  [m_failed_step |-> st.m_failed_step, m_result |-> st.m_result,
         invoked |-> st.invoked, returned |-> st.m_failed_step]

\* FunctionRunner::run_impl: the members afterwards, the steps invoked and the
\* value returned
FunctionRunner_run_impl(r, failed, result, outs) ==
    LET st == FunctionRunner_run_fold(r, outs, 0,
                  [m_failed_step |-> -1, m_result |-> result,
                   invoked |-> << >>])
    IN  [m_failed_step |-> st.m_failed_step, m_result |-> st.m_result,
         invoked |-> st.invoked, returned |-> st.m_failed_step]

\* FunctionRunner::rerun_impl from step Is on.  The fold over || stops at the
\* first operand that is true: the step with Is == index, after found = true.
RECURSIVE FunctionRunner_rerun_fold(_, _, _, _, _)
FunctionRunner_rerun_fold(r, index, outs, Is, st) ==
    IF Is = r.size
    THEN st
    ELSE IF Is = index
         THEN [st EXCEPT !.m_result = outs[Is], !.found = TRUE,
                         !.invoked = Append(@, Is)]
         ELSE FunctionRunner_rerun_fold(r, index, outs, Is + 1, st)

\* faulty variant: the value of the step is returned as it is
FunctionRunner_rerun_impl_NoIsFailure(r, result, index, outs) ==
    LET st == FunctionRunner_rerun_fold(r, index, outs, 0,
                  [m_result |-> result, found |-> FALSE, invoked |-> << >>])
    IN  [m_result |-> st.m_result, invoked |-> st.invoked,
         returned |-> IF st.found
                      THEN st.m_result # ValueInit(r.return_type)
                      ELSE FALSE]

\* FunctionRunner::rerun_impl
FunctionRunner_rerun_impl(r, result, index, outs) ==
    LET st == FunctionRunner_rerun_fold(r, index, outs, 0,
                  [m_result |-> result, found |-> FALSE, invoked |-> << >>])
    IN  [m_result |-> st.m_result, invoked |-> st.invoked,
         returned |-> IF st.found
                      THEN ~is_failure(r.return_type, st.m_result)
                      ELSE FALSE]

\* ParallelRunner::run_impl from step Is on: the fold over the comma operator
RECURSIVE ParallelRunner_run_fold(_, _, _, _)
ParallelRunner_run_fold(r, outs, Is, st) ==
    IF Is = r.size
    THEN st
    ELSE ParallelRunner_run_fold(r, outs, Is + 1,
             [st EXCEPT !.m_results[Is] = outs[Is], !.invoked = Append(@, Is)])

\* faulty variant: the fold stops after the first step that fails
ParallelRunner_run_impl_StopsAtFailure(r, results, outs) ==
    LET first == { i \in Steps(r) : is_failure(r.return_type, outs[i]) }
        last == IF first = {} THEN r.size - 1
                ELSE CHOOSE i \in first : \A j \in first : i <= j
    IN  [m_results |-> [i \in Steps(r) |-> IF i <= last THEN outs[i]
                                           ELSE results[i]],
         invoked |-> [k \in 1..(last + 1) |-> k - 1]]

\* ParallelRunner::run_impl
ParallelRunner_run_impl(r, results, outs) ==
    LET st == ParallelRunner_run_fold(r, outs, 0,
                  [m_results |-> results, invoked |-> << >>])
    IN  [m_results |-> st.m_results, invoked |-> st.invoked]

\* ParallelRunner::rerun_impl from step Is on
RECURSIVE ParallelRunner_rerun_fold(_, _, _, _, _)
ParallelRunner_rerun_fold(r, index, outs, Is, st) ==
    IF Is = r.size
    THEN st
    ELSE IF Is = index
         THEN [st EXCEPT !.m_results[Is] = outs[Is], !.found = TRUE,
                         !.invoked = Append(@, Is)]
         ELSE ParallelRunner_rerun_fold(r, index, outs, Is + 1, st)

\* ParallelRunner::rerun_impl
ParallelRunner_rerun_impl(r, results, index, outs) ==
    LET st == ParallelRunner_rerun_fold(r, index, outs, 0,
                  [m_results |-> results, found |-> FALSE, invoked |-> << >>])
    IN  [m_results |-> st.m_results, invoked |-> st.invoked,
         returned |-> IF st.found
                      THEN ~is_failure(r.return_type, st.m_results[index])
                      ELSE FALSE]

\* the loop of ParallelRunner::rerun_failed from i on
RECURSIVE ParallelRunner_rerun_failed_loop(_, _, _, _)
ParallelRunner_rerun_failed_loop(r, outs, i, st) ==
    IF i = r.size
    THEN st
    ELSE IF is_failure(r.return_type, st.m_results[i])
         THEN LET c == ParallelRunner_rerun_impl(r, st.m_results, i, outs)
              IN  ParallelRunner_rerun_failed_loop(r, outs, i + 1,
                      [m_results |-> c.m_results,
                       invoked |-> st.invoked \o c.invoked,
                       success_count |-> IF c.returned
                                         THEN st.success_count + 1
                                         ELSE st.success_count])
         ELSE ParallelRunner_rerun_failed_loop(r, outs, i + 1, st)

\* faulty variant: without the m_executed test of line 273
ParallelRunner_rerun_failed_NoExecutedTest(r, results, executed, outs) ==
    LET st == ParallelRunner_rerun_failed_loop(r, outs, 0,
                  [m_results |-> results, invoked |-> << >>,
                   success_count |-> 0])
    IN  [m_results |-> st.m_results, invoked |-> st.invoked,
         returned |-> st.success_count]

\* ParallelRunner::rerun_failed
ParallelRunner_rerun_failed(r, results, executed, outs) ==
    IF ~executed
    THEN [m_results |-> results, invoked |-> << >>, returned |-> 0]
    ELSE LET st == ParallelRunner_rerun_failed_loop(r, outs, 0,
                       [m_results |-> results, invoked |-> << >>,
                        success_count |-> 0])
         IN  [m_results |-> st.m_results, invoked |-> st.invoked,
              returned |-> st.success_count]

\* ParallelRunner::result(index)
result(r, results, executed, index) ==
    IF index < r.size /\ executed
    THEN results[index]
    ELSE ValueInit(r.return_type)

\* ParallelRunner::succeeded(index)
succeeded(r, results, executed, index) ==
    IF index < r.size /\ executed
    THEN ~is_failure(r.return_type, results[index])
    ELSE FALSE

\* ParallelRunner::all_succeeded()
all_succeeded(r, results, executed) ==
    IF ~executed
    THEN FALSE
    ELSE \A i \in Steps(r) : ~is_failure(r.return_type, results[i])

\* ParallelRunner::any_succeeded()
any_succeeded(r, results, executed) ==
    IF ~executed
    THEN FALSE
    ELSE \E i \in Steps(r) : ~is_failure(r.return_type, results[i])

\* faulty variant: the stored values are counted whether or not run() was called
success_count_IgnoresExecuted(r, results, executed) ==
    Cardinality({ i \in Steps(r) : ~is_failure(r.return_type, results[i]) })

\* ParallelRunner::success_count()
success_count(r, results, executed) ==
    IF ~executed
    THEN 0
    ELSE Cardinality({ i \in Steps(r) : ~is_failure(r.return_type, results[i]) })

\* ParallelRunner::failure_count()
failure_count(r, results, executed) ==
    IF executed THEN r.size - success_count(r, results, executed) ELSE 0

\* faulty variant: a step that succeeded last clears the failure
failed_step_ClearedBySuccess ==
    IF is_failure(runner.return_type, m_result) THEN m_failed_step ELSE -1

\* FunctionRunner::failed_step()
failed_step == m_failed_step

\* history: how the last execution of each step ended, after the steps invoked
\* have returned values
LastAfter(r, invoked, values) ==
    [i \in Steps(r) |->
        LET ks == { k \in 1..Len(invoked) : invoked[k] = i }
        IN  IF ks = {}
            THEN rh.last[i]
            ELSE IF is_failure(r.return_type,
                               values[CHOOSE k \in ks : \A j \in ks : j <= k])
                 THEN "failure"
                 ELSE "success"]

\* the values returned by the steps invoked
ValuesOfInvoked(invoked, outs) ==
    [k \in 1..Len(invoked) |-> outs[invoked[k]]]

\* history: what the observers a call can be compared with returned before
\* the call; NoPre where nothing is recorded
NoPre == [failed_step |-> -1, m_results |-> << >>, success_count |-> 0]

\* a runner constructed by make_function_runner or make_parallel_runner
InitRunners ==
    /\ NoArena
    /\ NoVector
    /\ NoHandles
    /\ NoMove
    /\ runner \in RunnerConfigs
    /\ m_failed_step = -1
    /\ m_result = ValueInit(runner.return_type)
    /\ m_results = [i \in Steps(runner) |-> ValueInit(runner.return_type)]
    /\ m_executed = FALSE
    /\ rop = [kind |-> "construct", index |-> 0, returned |-> 0,
              invoked |-> << >>, values |-> << >>, pre |-> NoPre]
    /\ rh = [ran |-> FALSE, run_returned |-> -1, failed_earlier |-> FALSE,
             last |-> [i \in Steps(runner) |-> "none"]]

\* FunctionRunner::run()
FunctionRunnerRun ==
    \E outs \in Outcomes(runner) :
        LET c == FunctionRunner_run_impl(runner, m_failed_step, m_result, outs)
            values == ValuesOfInvoked(c.invoked, outs)
        IN  /\ runner.class = "FunctionRunner"
            /\ m_failed_step' = c.m_failed_step
            /\ m_result' = c.m_result
            /\ rop' = [kind |-> "run", index |-> 0, returned |-> c.returned,
                       invoked |-> c.invoked, values |-> values,
                       pre |-> [NoPre EXCEPT !.failed_step = failed_step]]
            /\ rh' = [ran |-> TRUE, run_returned |-> c.returned,
                      failed_earlier |-> (rh.failed_earlier \/ rh.run_returned >= 0),
                      last |-> LastAfter(runner, c.invoked, values)]
            /\ UNCHANGED <<runner, m_results, m_executed, arenaVars,
                           vectorVars, handleVars, moveVars>>

\* FunctionRunner::rerun(index); out is the value the step invoked returns
FunctionRunnerRerun ==
    \E index \in Indices(runner), out \in ValuesOf(runner.return_type) :
        LET outs == [i \in Steps(runner) |-> out]
            c == FunctionRunner_rerun_impl(runner, m_result, index, outs)
            values == ValuesOfInvoked(c.invoked, outs)
        IN  /\ runner.class = "FunctionRunner"
            /\ m_result' = c.m_result
            /\ rop' = [kind |-> "rerun", index |-> index,
                       returned |-> c.returned, invoked |-> c.invoked,
                       values |-> values,
                       pre |-> [NoPre EXCEPT !.failed_step = failed_step]]
            /\ rh' = [rh EXCEPT !.last = LastAfter(runner, c.invoked, values)]
            /\ UNCHANGED <<runner, m_failed_step, m_results, m_executed,
                           arenaVars, vectorVars, handleVars, moveVars>>

\* ParallelRunner::run()
ParallelRunnerRun ==
    \E outs \in Outcomes(runner) :
        LET c == ParallelRunner_run_impl(runner, m_results, outs)
            values == ValuesOfInvoked(c.invoked, outs)
        IN  /\ runner.class = "ParallelRunner"
            /\ m_results' = c.m_results
            /\ m_executed' = TRUE
            /\ rop' = [kind |-> "run", index |-> 0, returned |-> 0,
                       invoked |-> c.invoked, values |-> values, pre |-> NoPre]
            /\ rh' = [rh EXCEPT !.ran = TRUE,
                                !.last = LastAfter(runner, c.invoked, values)]
            /\ UNCHANGED <<runner, m_failed_step, m_result, arenaVars,
                           vectorVars, handleVars, moveVars>>

\* ParallelRunner::rerun(index)
ParallelRunnerRerun ==
    \E index \in Indices(runner), out \in ValuesOf(runner.return_type) :
        LET outs == [i \in Steps(runner) |-> out]
            c == ParallelRunner_rerun_impl(runner, m_results, index, outs)
            values == ValuesOfInvoked(c.invoked, outs)
        IN  /\ runner.class = "ParallelRunner"
            /\ m_results' = c.m_results
            /\ rop' = [kind |-> "rerun", index |-> index,
                       returned |-> c.returned, invoked |-> c.invoked,
                       values |-> values, pre |-> NoPre]
            /\ rh' = [rh EXCEPT !.last = LastAfter(runner, c.invoked, values)]
            /\ UNCHANGED <<runner, m_failed_step, m_result, m_executed,
                           arenaVars, vectorVars, handleVars, moveVars>>

\* ParallelRunner::rerun_failed()
ParallelRunnerRerunFailed ==
    \E outs \in Outcomes(runner) :
        LET c == ParallelRunner_rerun_failed(runner, m_results, m_executed, outs)
            values == ValuesOfInvoked(c.invoked, outs)
        IN  /\ runner.class = "ParallelRunner"
            /\ m_results' = c.m_results
            /\ rop' = [kind |-> "rerun_failed", index |-> 0,
                       returned |-> c.returned, invoked |-> c.invoked,
                       values |-> values,
                       pre |-> [failed_step |-> -1, m_results |-> m_results,
                                success_count |->
                                    success_count(runner, m_results, m_executed)]]
            /\ rh' = [rh EXCEPT !.last = LastAfter(runner, c.invoked, values)]
            /\ UNCHANGED <<runner, m_failed_step, m_result, m_executed,
                           arenaVars, vectorVars, handleVars, moveVars>>

NextRunners ==
    \/ FunctionRunnerRun
    \/ FunctionRunnerRerun
    \/ ParallelRunnerRun
    \/ ParallelRunnerRerun
    \/ ParallelRunnerRerunFailed

SpecRunners == InitRunners /\ [][NextRunners]_vars

\* ------------------------------------------------------------------ regions
\* the byte range [lo, hi) of an allocation of n objects at p, n * sizeof(T)
\* taken as the number it is, not reduced to size_type
Region(a) == [lo |-> a.p, hi |-> a.p + a.n * cfg.size]

Overlap(a, b) == a.lo < b.hi /\ b.lo < a.hi

InBuffer(a) == BufferAddr <= a.lo /\ a.hi <= BufferAddr + cfg.N

\* pointer + count * sizeof(T) in size_type arithmetic
EndIn_size_type(p, n) == (p + ((n * cfg.size) % SizeMod)) % SizeMod

\* -------------------------------------------------------------------- C1
\* C1: after any sequence of allocate(count) calls, any count, and
\* deallocate(pointer, count) calls on pointers into the buffer (those returned
\* by allocate among them), 0 <= cursor <= C.
CursorWithinCapacity == m_offset >= 0 /\ m_offset <= cfg.N

\* an allocation has filled the buffer to its last byte after an earlier
\* allocation was given back
WitnessCursorAtCapacity ==
    /\ m_offset = cfg.N
    /\ op.kind = "allocate" /\ op.result # NULL
    /\ op.pre > 0
    /\ ~misuse /\ Len(live) = 1

\* -------------------------------------------------------------------- C2
\* C2: while every deallocate passes the pointer and count of a live
\* allocation, the byte ranges of the live allocations are pairwise disjoint.
LiveRegionsDisjoint ==
    ~misuse =>
        \A i, j \in 1..Len(live) :
            i < j => ~Overlap(Region(live[i]), Region(live[j]))

\* -------------------------------------------------------------------- C3
\* C3: allocate(count), count > 0, called where aligned_cursor +
\* count * elem_size > C returns the null pointer and leaves the cursor where
\* it was.
OutOfSpaceSignalled ==
    (/\ op.kind = "allocate" /\ op.n > 0
     /\ aligned_offset(cfg, op.pre) + op.n * cfg.size > cfg.N)
        => (op.result = NULL /\ m_offset = op.pre)

\* -------------------------------------------------------------------- C6
\* C6: allocate(count) followed at once by deallocate of the returned pointer
\* with the same count puts the cursor back where the allocation started, and
\* the allocate(count) that follows at once returns the same address.
TailReclaimRoundTrip ==
    /\ rt.stage = 2 => m_offset = rt.start
    /\ rt.stage = 3 => rt.q = rt.p

\* the third call of a round trip has returned, from a cursor above 0
WitnessRoundTrip ==
    rt.stage = 3 /\ rt.n > 0 /\ rt.start > 0 /\ rt.q # NULL

\* -------------------------------------------------------------------- C7
\* C7: the cursor is lowered only by a deallocate whose region ends exactly at
\* the cursor; no allocate lowers it.
CursorLoweredOnlyByTailDeallocate ==
    (~misuse /\ m_offset < op.pre) =>
        /\ op.kind = "deallocate"
        /\ Region(op).hi = BufferAddr + op.pre

\* -------------------------------------------------------------------- C8
\* C8: for every count of size_type, a successful allocate returns
\* count * elem_size bytes inside the buffer, and a request whose byte size
\* exceeds what is left fails.
AllocationWithinBuffer ==
    op.kind = "allocate" =>
        /\ op.result # NULL => InBuffer(Region([p |-> op.result, n |-> op.n]))
        /\ (op.n > 0 /\ aligned_offset(cfg, op.pre) + op.n * cfg.size > cfg.N)
               => op.result = NULL

AllocateZeroIsNoOp ==
    (op.kind = "allocate" /\ op.n = 0) =>
        (op.result = NULL /\ m_offset = op.pre /\ status = "running")

\* allocate(0) was called on an allocator whose buffer is used to its last byte
WitnessAllocateZeroWhenFull ==
    /\ op.kind = "allocate" /\ op.n = 0
    /\ op.pre = cfg.N /\ cfg.N > 0

\* ------------------------------------------------------------------- C12
\* C12: a handle constructed by the rebind constructor has the buffer of the
\* handle it was constructed from and, at all times, the same cursor.
ReboundSharesBufferAndCursor ==
    \A j \in 1..Len(handles) :
        handles[j].how = "rebind" =>
            /\ handles[j].buf = handles[handles[j].origin].buf
            /\ handles[j].m_offset = handles[handles[j].origin].m_offset

\* ------------------------------------------------------------------- C13
\* C13: a handle constructed from an allocator by the copy or the rebind
\* constructor compares equal to that allocator.
DerivedEqualsOrigin ==
    (/\ hop.kind = "compare"
     /\ hop.h # hop.other
     /\ handles[hop.other].origin = hop.h)
        => hop.eq

\* ------------------------------------------------------------------- C14
\* C14: a handle compares equal to itself; two allocators constructed
\* independently of each other never compare equal, whatever their types,
\* sizes and cursors; and a != b is the negation of a == b.
EqualityIsBufferIdentity ==
    hop.kind = "compare" =>
        /\ hop.h = hop.other => hop.eq
        /\ (hop.h # hop.other /\ handles[hop.other].how = "default") => ~hop.eq
        /\ hop.ne = ~hop.eq

\* two allocators of one type and one size, constructed independently and
\* with the same cursor above 0, have been compared
WitnessTwinArenasCompared ==
    /\ hop.kind = "compare" /\ hop.h # hop.other
    /\ handles[hop.other].how = "default"
    /\ handles[hop.h].c = handles[hop.other].c
    /\ handles[hop.h].m_offset = handles[hop.other].m_offset
    /\ handles[hop.h].m_offset > 0

\* ------------------------------------------------------------------- C15
\* C15: every live allocation made through a copied or rebound handle is
\* disjoint from every live allocation made through the handle it was
\* constructed from.
HRegion(x) == [lo |-> x.p, hi |-> x.p + x.n * handles[x.h].c.size]

DerivedAllocationsDisjoint ==
    \A x, y \in hlive :
        (x.h # y.h /\ handles[Len(handles)].origin # 0)
            => ~Overlap(HRegion(x), HRegion(y))

\* ------------------------------------------------------------------- C16
\* C16: the elements of a move-constructed StackVector are in a buffer of that
\* StackVector, and none is inside the object it was constructed from.
MovedElementsInOwnObject ==
    \A i \in 1..Len(dst.addr) :
        /\ InsideObject(mcfg, dst, dst.addr[i], mcfg.size)
        /\ ~InsideObject(mcfg, src, dst.addr[i], mcfg.size)

\* ------------------------------------------------------------------- C17
\* C17: the storage of a StackVector is in the buffer of its member m_alloc,
\* whose cursor accounts for it: no other allocator object holds it.
StorageInOwnedArena ==
    (src.life = "alive" /\ src.start # NULL) =>
        /\ Buffer_m_alloc(mcfg, src.obj) <= src.start
        /\ src.start + src.cap * mcfg.size
               <= Buffer_m_alloc(mcfg, src.obj) + mcfg.N * mcfg.size
        /\ src.m_alloc = src.cap * mcfg.size

\* ------------------------------------------------------------------- C23
\* the bytes of the first k allocations recorded in live, n * sizeof(T) each,
\* taken as the number it is
RECURSIVE BytesBefore(_)
BytesBefore(k) ==
    IF k = 0 THEN 0 ELSE BytesBefore(k - 1) + live[k].n * cfg.size

\* C23: without AlignAccess, in an allocator on which only allocate has been
\* called, the k-th successful allocation starts at the offset that is the sum
\* of the bytes of the successful allocations before it.
PackedAtSumOfPreceding ==
    ~cfg.AlignAccess =>
        \A k \in 1..Len(live) : OffsetOf(live[k].p) = BytesBefore(k - 1)

\* ------------------------------------------------------------------- C24
\* the smallest multiple of a that is >= off
LeastMultipleFrom(off, a) ==
    CHOOSE m \in off..(off + a - 1) : m % a = 0

\* C24: with AlignAccess, a successful allocate(n) returns the smallest
\* multiple of alignof(T) that is >= the m_offset it was called with, and
\* leaves m_offset at that offset plus n * sizeof(T).
AllocatesAtAlignedCursor ==
    (cfg.AlignAccess /\ op.kind = "allocate" /\ op.result # NULL) =>
        /\ OffsetOf(op.result) = LeastMultipleFrom(op.pre, cfg.align)
        /\ m_offset = LeastMultipleFrom(op.pre, cfg.align) + op.n * cfg.size

\* ------------------------------------------------------------------- C25
\* a failure value as the documentation puts it: false for bool, non-zero for
\* any other return type
FailureValue(v) ==
    IF runner.return_type = "bool" THEN v = FALSE ELSE v # 0

\* C25: FunctionRunner::run() invokes steps 0, 1, 2, ... in that order, each
\* at most once; every step before the last one invoked returned a success
\* value; if the last one invoked returned a failure value, run() returns its
\* index and no later step was invoked; else every step was invoked and run()
\* returns -1.
RunStopsAtFirstFailure ==
    (runner.class = "FunctionRunner" /\ rop.kind = "run") =>
        LET k == Len(rop.invoked)
        IN  /\ k >= 1
            /\ \A j \in 1..k : rop.invoked[j] = j - 1
            /\ \A j \in 1..(k - 1) : ~FailureValue(rop.values[j])
            /\ IF FailureValue(rop.values[k])
               THEN rop.returned = k - 1
               ELSE k = runner.size /\ rop.returned = -1

\* a run of three int steps has stopped at the second one, which returned -1
WitnessRunStoppedAtSecondStep ==
    /\ runner = [class |-> "FunctionRunner", return_type |-> "int", size |-> 3]
    /\ rop.kind = "run" /\ rop.returned = 1
    /\ rop.invoked = <<0, 1>> /\ rop.values = <<0, -1>>

\* ------------------------------------------------------------------- C26
\* C26: ParallelRunner::run() invokes steps 0 .. size() - 1 in that order, each
\* once, whatever they return, and afterwards result(i) is the value step i
\* returned, for every i < size().
RunInvokesEveryStep ==
    (runner.class = "ParallelRunner" /\ rop.kind = "run") =>
        /\ rop.invoked = [k \in 1..runner.size |-> k - 1]
        /\ \A i \in Steps(runner) :
               result(runner, m_results, m_executed, i) = rop.values[i + 1]

\* a run of three steps whose first step failed and whose last succeeded
WitnessRunPastFailure ==
    /\ runner = [class |-> "ParallelRunner", return_type |-> "bool", size |-> 3]
    /\ rop.kind = "run"
    /\ rop.values = <<FALSE, FALSE, TRUE>>
    /\ result(runner, m_results, m_executed, 2) = TRUE

\* ------------------------------------------------------------------- C27
\* C27: after any sequence of run(), rerun(i) and rerun_failed() calls on a
\* ParallelRunner, succeeded(i) is true exactly if i < size() and the most
\* recent execution of step i returned a success value.
SucceededTellsLastExecution ==
    runner.class = "ParallelRunner" =>
        \A i \in Indices(runner) :
            succeeded(runner, m_results, m_executed, i)
                = (i < runner.size /\ rh.last[i] = "success")

\* ------------------------------------------------------------------- C28
\* C28: FunctionRunner::failed_step() is -1 before the first run() and
\* otherwise what the most recent run() returned, whatever rerun calls
\* followed; a run() in which every step invoked succeeded returns -1 and
\* leaves failed_step() at -1, whatever an earlier run() recorded.
FailedStepIsLastRunsResult ==
    runner.class = "FunctionRunner" =>
        /\ failed_step = IF rh.ran THEN rh.run_returned ELSE -1
        /\ (rop.kind = "run"
               /\ \A j \in 1..Len(rop.values) : ~FailureValue(rop.values[j]))
              => (failed_step = -1 /\ rop.returned = -1)

\* a run in which every step succeeded, after a run that reported a failure
WitnessCleanRunAfterFailedRun ==
    /\ runner.class = "FunctionRunner" /\ runner.size = 3
    /\ rop.kind = "run" /\ rop.returned = -1
    /\ rh.failed_earlier
    /\ failed_step = -1

\* ------------------------------------------------------------------- C29
\* C29: rerun(index) of a FunctionRunner or a ParallelRunner with
\* index < size() invokes step index once and no other step, and returns true
\* exactly if the step returned a success value; with index >= size() it
\* invokes no step and returns false.
RerunInvokesOnlyThatStep ==
    (runner.class \in {"FunctionRunner", "ParallelRunner"}
        /\ rop.kind = "rerun") =>
        IF rop.index < runner.size
        THEN /\ rop.invoked = <<rop.index>>
             /\ rop.returned = ~FailureValue(rop.values[1])
        ELSE /\ rop.invoked = << >>
             /\ rop.returned = FALSE

\* the second of three int steps failed in run() and has succeeded on rerun
WitnessRerunOfFailedStep ==
    /\ runner = [class |-> "FunctionRunner", return_type |-> "int", size |-> 3]
    /\ rop.kind = "rerun" /\ rop.index = 1 /\ rop.returned = TRUE
    /\ rh.run_returned = 1

\* ------------------------------------------------------------------- C30
\* C30: on a ParallelRunner, before run() has been called success_count() and
\* failure_count() are 0 and all_succeeded() and any_succeeded() are false,
\* whatever rerun calls were made; once run() has been called,
\* success_count() + failure_count() = size(), all_succeeded() holds exactly
\* if failure_count() = 0 and any_succeeded() exactly if success_count() > 0.
CountsPartitionTheSteps ==
    runner.class = "ParallelRunner" =>
        LET sc == success_count(runner, m_results, m_executed)
            fc == failure_count(runner, m_results, m_executed)
            all == all_succeeded(runner, m_results, m_executed)
            any == any_succeeded(runner, m_results, m_executed)
        IN  IF rh.ran
            THEN /\ sc + fc = runner.size
                 /\ all <=> (fc = 0)
                 /\ any <=> (sc > 0)
            ELSE sc = 0 /\ fc = 0 /\ ~all /\ ~any

\* after run() and rerun_failed(), two of three steps stand as succeeded
WitnessMixedCounts ==
    /\ runner.class = "ParallelRunner" /\ runner.size = 3
    /\ rh.ran /\ rop.kind = "rerun_failed" /\ rop.returned = 1
    /\ success_count(runner, m_results, m_executed) = 2
    /\ failure_count(runner, m_results, m_executed) = 1

\* ------------------------------------------------------------------- C31
\* C31: ParallelRunner::rerun_failed() before any run() invokes no step and
\* returns 0.  After a run() it invokes, in index order and once each, exactly
\* the steps whose stored value was a failure, and returns how many of them
\* returned a success value; success_count() is then what it was before the
\* call plus the value returned.
RerunFailedRetriesTheFailures ==
    (runner.class = "ParallelRunner" /\ rop.kind = "rerun_failed") =>
        IF ~rh.ran
        THEN rop.invoked = << >> /\ rop.returned = 0
        ELSE /\ \A i \in Steps(runner) :
                    FailureValue(rop.pre.m_results[i])
                        <=> (\E k \in 1..Len(rop.invoked) : rop.invoked[k] = i)
             /\ \A j, k \in 1..Len(rop.invoked) :
                    j < k => rop.invoked[j] < rop.invoked[k]
             /\ rop.returned =
                    Cardinality({ k \in 1..Len(rop.values) :
                                     ~FailureValue(rop.values[k]) })
             /\ success_count(runner, m_results, m_executed)
                    = rop.pre.success_count + rop.returned

\* of three steps the first and the last had failed; rerun_failed has invoked
\* those two and one of them has succeeded
WitnessTwoRetriedOneRecovered ==
    /\ runner.class = "ParallelRunner" /\ runner.size = 3
    /\ rh.ran /\ rop.kind = "rerun_failed"
    /\ rop.invoked = <<0, 2>> /\ rop.returned = 1
    /\ rop.pre.success_count = 1

\* ------------------------------------------------------------------- C37
\* C37: FunctionRunner::rerun(index) leaves failed_step() as it was: after a
\* run() and any number of rerun calls, failed_step() is still what that run()
\* returned, also when the step it names has since succeeded.
RerunKeepsFailedStep ==
    (runner.class = "FunctionRunner" /\ rop.kind = "rerun") =>
        /\ failed_step = rop.pre.failed_step
        /\ rh.ran => failed_step = rh.run_returned

\* run() failed at the first of two bool steps, and rerun(0) has succeeded
WitnessFailedStepAfterRecovery ==
    /\ runner = [class |-> "FunctionRunner", return_type |-> "bool", size |-> 2]
    /\ rop.kind = "rerun" /\ rop.index = 0 /\ rop.returned = TRUE
    /\ rh.run_returned = 0 /\ failed_step = 0

\* ------------------------------------------------------------------- C32
\* C32: allocate(count) with count > 0 succeeds exactly if aligned_cursor +
\* count * elem_size <= C, and then leaves the cursor at that sum (at C for a
\* request that fills what is left); otherwise the cursor stays.  So from
\* cursor = C every request with count > 0 fails.
SucceedsIffItFits ==
    (op.kind = "allocate" /\ op.n > 0) =>
        LET end == aligned_offset(cfg, op.pre) + op.n * cfg.size
        IN  /\ op.result # NULL <=> end <= cfg.N
            /\ op.result # NULL => m_offset = end
            /\ op.result = NULL => m_offset = op.pre

\* ------------------------------------------------------------------- C33
\* C33: once the deallocate of a live allocation R has left the cursor where
\* it was, no allocate returns bytes of R, whatever allocate calls and
\* deallocate calls of other live allocations follow.
IgnoredRegionNeverReused ==
    (op.kind = "allocate" /\ op.result # NULL) =>
        \A R \in ignored :
            ~Overlap(Region(R), Region([p |-> op.result, n |-> op.n]))

\* ------------------------------------------------------------------- C34
\* C34: a push_back or emplace_back issued while size() == N asks the
\* allocator that holds the storage for more than N elements; the cursor of
\* that allocator is at N * sizeof(T), so the request is refused (null, or the
\* assertion), and the refused request leaves the cursor where it was; where
\* the program stops at the request, the storage and the elements are as
\* they were.
PushAtCapacityIsOutOfSpace ==
    (vop.kind \in {"push_back", "emplace_back"} /\ vop.size = vcfg.N) =>
        /\ Len(vh.calls) > vh.pre.calls
        /\ LET asked == vh.calls[vh.pre.calls + 1]
               a == allocate(allocator_type(vcfg), vh.pre.alloc, asked.n)
           IN  /\ asked.kind = "allocate"
               /\ asked.n > vcfg.N
               /\ vh.pre.alloc = allocator_type(vcfg).N
               /\ a.result = NULL /\ a.asserted
               /\ a.offset = vh.pre.alloc
        /\ vstatus # "running"
        /\ vstatus \in {"aborted", "crashed"} =>
               /\ Storage(sv, SubSeq(vh.calls, 1, vh.pre.calls)) = vh.pre
               /\ sv.elems = vop.elems

\* a full vector of three or more was pushed to, and the request for twice
\* its capacity was the only call made
WitnessRefusedGrowth ==
    /\ vop.kind = "push_back" /\ vop.size = vcfg.N /\ vcfg.N >= 3
    /\ vstatus = "crashed"
    /\ vh.calls[Len(vh.calls)] = [kind |-> "allocate", n |-> 2 * vcfg.N]
    /\ sv.alloc = vcfg.N * vcfg.size

\* ------------------------------------------------------------------- C35
\* C35: while every allocate asks for a count whose count * sizeof(T) fits
\* size_type and every deallocate is that of a live allocation, the cursor is
\* a multiple of sizeof(T); so the round-up of the aligned mode changes
\* nothing, and the next allocate gives the same pointer and cursor with and
\* without AlignAccess.
CursorIsMultipleOfElementSize ==
    /\ m_offset % cfg.size = 0
    /\ AlignUp(m_offset, cfg.align) = m_offset
    /\ \A n \in Counts(cfg) :
           allocate([cfg EXCEPT !.AlignAccess = TRUE], m_offset, n)
               = allocate([cfg EXCEPT !.AlignAccess = FALSE], m_offset, n)

\* ------------------------------------------------------------------- C36
\* C36: once every live allocation has been deallocated, newest first, on an
\* allocator none of whose deallocate calls was ignored, the cursor is 0 and
\* an allocate that succeeds returns the address of the buffer; once they
\* have been deallocated in another order, the cursor is above 0.
ReverseOrderEmptiesTheArena ==
    live = << >> =>
        /\ (unwound = "reverse" /\ ignored = {}) =>
               /\ m_offset = 0
               /\ \A n \in Counts(cfg) :
                      allocate(cfg, m_offset, n).result \in {NULL, BufferAddr}
        /\ unwound = "other" => m_offset > 0

\* ------------------------------------------------------------------- C21
\* C21: capacity() of a StackVector<T, N> in use is N: after construction,
\* after pushes up to N, after reserve(n) with n <= N, and for the two objects
\* of a move construction.
CapacityIsAlwaysN ==
    mstatus = "running" =>
        /\ src.life = "alive" => src.cap = mcfg.N
        /\ dst.life = "alive" => dst.cap = mcfg.N

\* ------------------------------------------------------------------- C22
\* C22: reserve(n) with n <= N, on a StackVector in any state, ends normally,
\* makes no call to the allocator and leaves the object as it was: length,
\* capacity, elements, their addresses and the cursors of its allocators.
ReserveWithinNIsNoOp ==
    [][\A n \in 0..mcfg.N, ub \in {"crash", "continue"} :
           /\ ReserveSourceWith(n, ub) =>
                  /\ src' = src /\ mstatus' = mstatus
                  /\ reserve_at(mcfg, src, n, ub).calls = << >>
           /\ ReserveDestinationWith(n, ub) =>
                  /\ dst' = dst /\ mstatus' = mstatus
                  /\ reserve_at(mcfg, dst, n, ub).calls = << >>]_vars

\* -------------------------------------------------------------------- C4
\* C4: a push_back or emplace_back issued while size() == N fails in a defined
\* way (at most the debug assertion stops the program) and leaves the N
\* elements and the length as they were.
PushAtCapacityFailsCleanly ==
    (vop.kind \in {"push_back", "emplace_back"} /\ vop.size = vcfg.N) =>
        /\ vstatus \in {"running", "aborted"}
        /\ sv.elems = vop.elems

\* -------------------------------------------------------------------- C5
\* C5: while the StackVector is in use, its storage is where the constructor
\* put it, and every element is at storage + i * sizeof(T), the address at
\* which it was constructed.
ElementAddressesStable ==
    vstatus = "running" =>
        /\ sv.start = StackVectorCtor(vcfg).start
        /\ \A i \in 1..Len(sv.elems) :
               sv.addr[i] = ElementAddr(vcfg, sv.start, i - 1)

\* the N-th element has been pushed
WitnessFullVector ==
    /\ vstatus = "running"
    /\ vop.kind \in {"push_back", "emplace_back"}
    /\ vcfg.N >= 3 /\ Len(sv.elems) = vcfg.N

\* ------------------------------------------------------------------- C18
\* C18: the constructor makes one call to the allocator that holds the
\* storage, allocate(N), and leaves size() = 0, capacity() = N and that
\* allocator's cursor at N * sizeof(T); a push_back or emplace_back issued while
\* size() < N succeeds without any call to the allocator.
ConstructorReservesOnce ==
    /\ vop.kind = "construct" =>
          /\ vh.calls = <<[kind |-> "allocate", n |-> vcfg.N]>>
          /\ Len(sv.elems) = 0
          /\ sv.cap = vcfg.N
          /\ sv.alloc = vcfg.N * vcfg.size
    /\ (vop.kind \in {"push_back", "emplace_back"} /\ vop.size < vcfg.N) =>
          /\ vstatus = "running"
          /\ Len(vh.calls) = vh.pre.calls
          /\ vh.calls = <<[kind |-> "allocate", n |-> vcfg.N]>>
          /\ sv.cap = vcfg.N

\* the last free place of a vector of three or more has been filled by
\* emplace_back
WitnessLastPlaceFilled ==
    /\ vop.kind = "emplace_back" /\ vstatus = "running"
    /\ vcfg.N >= 3 /\ vop.size = vcfg.N - 1
    /\ Len(vh.calls) = 1

\* ------------------------------------------------------------------- C19
\* C19: size() <= N in every state reached by push_back, emplace_back and
\* clear calls, and a push that returns normally has appended its value to the
\* elements there were.
LengthWithinCapacity ==
    /\ Len(sv.elems) <= vcfg.N
    /\ (vop.kind \in {"push_back", "emplace_back"} /\ vstatus = "running") =>
          sv.elems = Append(vop.elems, vh.x)

\* ------------------------------------------------------------------- C20
\* C20: clear() leaves size() = 0 and the allocator's cursor, capacity(), the
\* storage address and the number of allocator calls as they were; the pushes
\* that follow, up to N, succeed and put element i where element i was when
\* clear() was called.
ClearKeepsStorage ==
    /\ vop.kind = "clear" =>
          /\ sv.elems = << >>
          /\ Storage(sv, vh.calls) = vh.pre
    /\ (vop.kind \in {"push_back", "emplace_back"} /\ vop.size < vcfg.N) =>
          /\ vstatus = "running"
          /\ \A i \in 1..Len(sv.addr) :
                 i <= Len(vh.cleared) => sv.addr[i] = vh.cleared[i]

\* a full vector was cleared and has been filled again
WitnessRefilledAfterClear ==
    /\ vop.kind \in {"push_back", "emplace_back"} /\ vstatus = "running"
    /\ vcfg.N >= 3
    /\ Len(vh.cleared) = vcfg.N /\ Len(sv.elems) = vcfg.N

====
